---- MODULE Spec2Model ----
(***************************************************************************)
(* Inventory Barcode Scanner: the operator session of src/src/App.jsx      *)
(* (file selection, scan, confirm, cancel, reset, debounced auto-save)     *)
(* together with the blob store behind the get-JSON / put-JSON functions.  *)
(*                                                                         *)
(* Strings the code inspects character by character (keys, headers, codes, *)
(* quantities, JSON text) are sequences of one-character strings.  The     *)
(* literals "scans/" and ".json" that scansKeyFor concatenates are single  *)
(* elements of such a sequence.  Numbers are integers: inputs with a       *)
(* fraction or an exponent are outside the model.                          *)
(***************************************************************************)
EXTENDS Integers, Sequences, FiniteSets, TLC

(* ------------------------------ characters ----------------------------- *)

Lower == <<"a","b","c","d","e","f","g","h","i","j","k","l","m",
           "n","o","p","q","r","s","t","u","v","w","x","y","z">>
Upper == <<"A","B","C","D","E","F","G","H","I","J","K","L","M",
           "N","O","P","Q","R","S","T","U","V","W","X","Y","Z">>
Digits == <<"0","1","2","3","4","5","6","7","8","9">>

Range(s) == { s[i] : i \in DOMAIN s }

DigitSet == Range(Digits)
WordChars == Range(Lower) \cup Range(Upper) \cup DigitSet \cup {"_"}
\* \s of a JavaScript regular expression (the byte-order mark is in \s).
WhiteSpace == {" ", "\t", "\n", "\r", "BOM"}
\* What String.prototype.trim removes (the byte-order mark included).
TrimChars == WhiteSpace

Filter(s, keep) == SelectSeq(s, LAMBDA c : c \in keep)
Remove(s, drop) == SelectSeq(s, LAMBDA c : c \notin drop)

RECURSIVE TrimStart(_)
TrimStart(s) ==
    IF s # <<>> /\ Head(s) \in TrimChars THEN TrimStart(Tail(s)) ELSE s

RECURSIVE TrimEnd(_)
TrimEnd(s) ==
    IF s # <<>> /\ s[Len(s)] \in TrimChars
    THEN TrimEnd(SubSeq(s, 1, Len(s) - 1)) ELSE s

Trim(s) == TrimEnd(TrimStart(s))

ToLowerChar(c) ==
    IF c \in Range(Upper)
    THEN Lower[CHOOSE i \in DOMAIN Upper : Upper[i] = c]
    ELSE c

ToLowerCase(s) == [i \in DOMAIN s |-> ToLowerChar(s[i])]

RECURSIVE Join(_, _)
\* parts.join(sep)
Join(parts, sep) ==
    IF parts = <<>> THEN <<>>
    ELSE IF Len(parts) = 1 THEN parts[1]
    ELSE parts[1] \o <<sep>> \o Join(Tail(parts), sep)

RECURSIVE SplitFrom(_, _, _)
SplitFrom(s, sep, cur) ==
    IF s = <<>> THEN <<cur>>
    ELSE IF Head(s) = sep THEN <<cur>> \o SplitFrom(Tail(s), sep, <<>>)
    ELSE SplitFrom(Tail(s), sep, Append(cur, Head(s)))

\* s.split(sep): always at least one part
Split(s, sep) == SplitFrom(s, sep, <<>>)

\* s.replace(/\.[^.]+$/, ""): drops a final ".ext" whose ext is non-empty
\* and holds no dot
StripExt(s) ==
    LET dots == { i \in DOMAIN s : s[i] = "." }
    IN  IF dots = {} THEN s
        ELSE LET last == CHOOSE i \in dots : \A j \in dots : j <= i
             IN  IF last < Len(s) THEN SubSeq(s, 1, last - 1) ELSE s

(* ------------------------------- numbers ------------------------------- *)

DigitVal(c) == (CHOOSE i \in DOMAIN Digits : Digits[i] = c) - 1

RECURSIVE DigitsValue(_, _)
DigitsValue(s, acc) ==
    IF s = <<>> \/ Head(s) \notin DigitSet THEN acc
    ELSE DigitsValue(Tail(s), acc * 10 + DigitVal(Head(s)))

\* parseFloat on a string without fraction or exponent: an optional sign and
\* the longest run of digits; NaN (isNaN TRUE) when there is no digit.
parseFloat(s) ==
    LET neg  == s # <<>> /\ Head(s) = "-"
        body == IF s # <<>> /\ Head(s) \in {"-", "+"} THEN Tail(s) ELSE s
    IN  IF body = <<>> \/ Head(body) \notin DigitSet
        THEN [isNaN |-> TRUE, n |-> 0]
        ELSE [isNaN |-> FALSE,
              n |-> IF neg THEN 0 - DigitsValue(body, 0) ELSE DigitsValue(body, 0)]

\* A loosely typed value: a number or a string.
Num(n) == [t |-> "number", n |-> n, s |-> <<>>]
Str(s) == [t |-> "string", n |-> 0, s |-> s]

\* A variant of the coercion that raises a negative quantity to zero
toNumberClamped(v) ==
    IF v.t = "number" THEN (IF v.n < 0 THEN 0 ELSE v.n)
    ELSE LET p == parseFloat(Remove(v.s, WhiteSpace \cup {","}))
         IN  IF p.isNaN \/ p.n < 0 THEN 0 ELSE p.n

toNumber(v) ==
    IF v.t = "number" THEN v.n
    ELSE LET p == parseFloat(Remove(v.s, WhiteSpace \cup {","}))
         IN  IF p.isNaN THEN 0 ELSE p.n

RECURSIVE NatToString(_)
NatToString(n) ==
    IF n < 10 THEN <<Digits[n + 1]>>
    ELSE Append(NatToString(n \div 10), Digits[(n % 10) + 1])

\* String(n) for an integer
NumberToString(n) == IF n < 0 THEN <<"-">> \o NatToString(0 - n) ELSE NatToString(n)

(* ---------------------- helpers and column detection ------------------- *)

\* Normalize a barcode/string for matching
normCode(v) ==
    LET s1 == Remove(v, {"BOM"})
        s2 == Trim(s1)
        s3 == Remove(s2, WhiteSpace)
    IN  Filter(s3, WordChars \cup {"-"})

RECURSIVE StripLeadingZeros(_)
\* a.replace(/^0+/, "")
StripLeadingZeros(a) ==
    IF a # <<>> /\ Head(a) = "0" THEN StripLeadingZeros(Tail(a)) ELSE a

\* For numeric codes, also return a variant without leading zeros
normVariants(v) ==
    LET a == normCode(v)
    IN  IF a # <<>> /\ \A i \in DOMAIN a : a[i] \in DigitSet
        THEN LET b == StripLeadingZeros(a)
             IN  IF b # <<>> /\ b # a THEN <<a, b>> ELSE <<a>>
        ELSE <<a>>

BarcodeAliases ==
    << <<"b","a","r","c","o","d","e">>,
       <<"b","a","r"," ","c","o","d","e">>,
       <<"s","k","u">>,
       <<"i","t","e","m","c","o","d","e">>,
       <<"i","t","e","m","i","d">>,
       <<"p","r","o","d","u","c","t","c","o","d","e">>,
       <<"u","p","c">>,
       <<"e","a","n">>,
       <<"g","t","i","n">>,
       <<"c","o","d","e">> >>

NameAliases ==
    << <<"n","a","m","e">>,
       <<"p","r","o","d","u","c","t","n","a","m","e">>,
       <<"t","i","t","l","e">>,
       <<"i","t","e","m">>,
       <<"i","t","e","m","n","a","m","e">>,
       <<"d","e","s","c","r","i","p","t","i","o","n">>,
       <<"p","r","o","d","u","c","t">>,
       <<"p","r","o","d","u","c","t","t","i","t","l","e">> >>

OnHandAliases ==
    << <<"o","n","h","a","n","d">>,
       <<"o","n"," ","h","a","n","d">>,
       <<"o","n","h","a","n","d","n","e","w">>,
       <<"o","n"," ","h","a","n","d"," ","n","e","w">>,
       <<"o","n","h","a","n","d","(","n","o","t","e","d","i","t","a","b","l","e",")">>,
       <<"o","n","h","a","n","d","n","e","w","(","n","o","t","e","d","i","t","a","b","l","e",")">>,
       <<"q","t","y","o","n","h","a","n","d">>,
       <<"q","u","a","n","t","i","t","y","o","n","h","a","n","d">>,
       <<"s","t","o","c","k">>,
       <<"q","t","y">>,
       <<"q","u","a","n","t","i","t","y">>,
       <<"a","v","a","i","l","a","b","l","e">>,
       <<"a","v","a","i","l","a","b","l","e","q","t","y">>,
       <<"a","v","a","i","l","a","b","l","e","q","u","a","n","t","i","t","y">>,
       <<"a","v","a","i","l","a","b","l","e","(","n","o","t","e","d","i","t","a","b","l","e",")">>,
       <<"o","n","h","a","n","d","(","n","e","w",")">> >>

ReservedAliases ==
    << <<"r","e","s","e","r","v","e","d">>,
       <<"a","l","l","o","c","a","t","e","d">>,
       <<"o","n","h","o","l","d">>,
       <<"o","n"," ","h","o","l","d">>,
       <<"c","o","m","m","i","t","t","e","d">>,
       <<"c","o","m","m","i","t","t","e","d","(","n","o","t","e","d","i","t","a","b","l","e",")">>,
       <<"a","l","l","o","c","a","t","e","d","q","t","y">> >>

\* norm of mapColumns: lower-case, drop the byte-order mark, parentheses,
\* white space, underscore, slash, bar and hyphen, then trim
normHeader(s) ==
    Trim(Remove(Remove(Remove(ToLowerCase(s), {"BOM"}), {"(", ")"}),
                WhiteSpace \cup {"_", "/", "|", "-"}))

RECURSIVE FindHeaderByAlias(_, _)
\* A variant of find that walks the aliases and takes the header of the first
\* alias that has one
FindHeaderByAlias(raw, aliases) ==
    IF aliases = <<>> THEN <<>>
    ELSE LET hits == { i \in DOMAIN raw : normHeader(raw[i]) = normHeader(Head(aliases)) }
         IN  IF hits = {} THEN FindHeaderByAlias(raw, Tail(aliases))
             ELSE raw[CHOOSE i \in hits : \A h \in hits : i <= h]

\* raw.find(h => aliases.map(norm).includes(norm(h))); <<>> is undefined
FindHeader(raw, aliases) ==
    LET normed == { normHeader(aliases[i]) : i \in DOMAIN aliases }
        hits   == { i \in DOMAIN raw : normHeader(raw[i]) \in normed }
    IN  IF hits = {} THEN <<>>
        ELSE raw[CHOOSE i \in hits : \A j \in hits : i <= j]

NullCols ==
    [isNull |-> TRUE, barcode |-> <<>>, name |-> <<>>, onHand |-> <<>>, reserved |-> <<>>]

mapColumns(headers) ==
    LET c == [isNull   |-> FALSE,
              barcode  |-> FindHeader(headers, BarcodeAliases),
              name     |-> FindHeader(headers, NameAliases),
              onHand   |-> FindHeader(headers, OnHandAliases),
              reserved |-> FindHeader(headers, ReservedAliases)]
    IN  IF c.barcode = <<>> \/ c.name = <<>> \/ c.onHand = <<>> THEN NullCols ELSE c

(* ---------------------------------- rows -------------------------------- *)

\* A row is an object in header order: a sequence of [k |-> header, v |-> cell].
ObjectKeys(r) == [i \in DOMAIN r |-> r[i].k]

HasField(r, h) == \E i \in DOMAIN r : r[i].k = h

\* r[h] ?? "" : the cell under header h, the empty string when there is none
Cell(r, h) ==
    IF HasField(r, h) THEN r[CHOOSE i \in DOMAIN r : r[i].k = h].v ELSE <<>>

useColumns(rs) ==
    IF rs = <<>> THEN NullCols ELSE mapColumns(ObjectKeys(rs[1]))

RECURSIVE IndexOfFirstWins(_, _, _)
\* A variant of the Map in which an earlier row keeps its keys
IndexOfFirstWins(rs, c, m) ==
    IF rs = <<>> THEN m
    ELSE LET r    == Head(rs)
             vs   == normVariants(Cell(r, c.barcode))
             keys == { vs[i] : i \in DOMAIN vs } \ {<<>>}
             m2   == [k \in DOMAIN m \cup keys |-> IF k \in DOMAIN m THEN m[k] ELSE r]
         IN  IndexOfFirstWins(Tail(rs), c, m2)

RECURSIVE IndexOf(_, _, _)
\* The Map built row by row: a later row overwrites the keys of an earlier one
IndexOf(rs, c, m) ==
    IF rs = <<>> THEN m
    ELSE LET r    == Head(rs)
             vs   == normVariants(Cell(r, c.barcode))
             keys == { vs[i] : i \in DOMAIN vs } \ {<<>>}
             m2   == [k \in DOMAIN m \cup keys |-> IF k \in keys THEN r ELSE m[k]]
         IN  IndexOf(Tail(rs), c, m2)

EmptyMap == [k \in {} |-> <<>>]

\* useMemo(() => ..., [rows, cols])
buildIndex(rs, c) == IF c.isNull THEN EmptyMap ELSE IndexOf(rs, c, EmptyMap)

(* ---------------------------------- JSON -------------------------------- *)

\* JSON text is a sequence of tokens: the braces and brackets, the member
\* names, the quote that delimits a string, "true", and the characters of
\* strings and numbers.  Colons and commas are left out.  No string of the
\* model holds a quote, so none is escaped.
Quote == "\""

StringifyString(s) == <<Quote>> \o s \o <<Quote>>

\* A variant of the serialization that leaves the timestamp out
StringifyEntryNoTs(e) ==
    <<"{", "barcode">> \o StringifyString(e.barcode) \o <<"name">> \o StringifyString(e.name)
        \o <<"prevOnHand">> \o NumberToString(e.prevOnHand) \o <<"reserved">> \o NumberToString(e.reserved)
        \o <<"actual">> \o NumberToString(e.actual) \o <<"delta">> \o NumberToString(e.delta) \o <<"}">>

\* JSON.stringify of one diff entry, members in insertion order
StringifyEntry(e) ==
    <<"{", "barcode">> \o StringifyString(e.barcode)
        \o <<"name">> \o StringifyString(e.name)
        \o <<"prevOnHand">> \o NumberToString(e.prevOnHand)
        \o <<"reserved">> \o NumberToString(e.reserved)
        \o <<"actual">> \o NumberToString(e.actual)
        \o <<"delta">> \o NumberToString(e.delta)
        \o <<"ts">> \o StringifyString(e.ts)
        \o <<"}">>

RECURSIVE StringifyArray(_)
StringifyArray(d) ==
    IF d = <<>> THEN <<>> ELSE StringifyEntry(Head(d)) \o StringifyArray(Tail(d))

\* JSON.stringify({ diffs })
StringifyDiffs(d) == <<"{", "diffs", "[">> \o StringifyArray(d) \o <<"]", "}">>

\* JSON.stringify({ ok: true, diffs: [] })
StringifyOkEmpty == <<"{", "ok", "true", "diffs", "[", "]", "}">>

\* JSON.stringify({ data: { diffs } }): the legacy shape
StringifyLegacy(d) == <<"{", "data">> \o StringifyDiffs(d) \o <<"}">>

EmptyEntry ==
    [barcode |-> <<>>, name |-> <<>>, prevOnHand |-> 0, reserved |-> 0,
     actual |-> 0, delta |-> 0, ts |-> <<>>]

RECURSIVE ReadString(_, _, _)
\* The string whose opening quote is toks[i - 1]
ReadString(toks, i, acc) ==
    IF i > Len(toks) \/ toks[i] = Quote THEN [v |-> acc, next |-> i + 1]
    ELSE ReadString(toks, i + 1, Append(acc, toks[i]))

RECURSIVE ReadNumber(_, _, _)
\* The number that starts at toks[i]
ReadNumber(toks, i, acc) ==
    IF i > Len(toks) \/ toks[i] \notin DigitSet \cup {"-"}
    THEN [v |-> parseFloat(acc).n, next |-> i]
    ELSE ReadNumber(toks, i + 1, Append(acc, toks[i]))

RECURSIVE ReadEntry(_, _, _)
\* The members of the entry object whose "{" is toks[i - 1], from toks[i] on
ReadEntry(toks, i, e) ==
    IF i >= Len(toks) \/ toks[i] = "}" THEN [v |-> e, next |-> i + 1]
    ELSE LET r == IF toks[i + 1] = Quote THEN ReadString(toks, i + 2, <<>>)
                  ELSE ReadNumber(toks, i + 1, <<>>)
         IN  ReadEntry(toks, r.next, [e EXCEPT ![toks[i]] = r.v])

RECURSIVE ReadArray(_, _, _)
\* The entries of the array whose "[" is toks[i - 1], from toks[i] on
ReadArray(toks, i, acc) ==
    IF i > Len(toks) \/ toks[i] # "{" THEN [v |-> acc, next |-> i + 1]
    ELSE LET r == ReadEntry(toks, i + 1, EmptyEntry)
         IN  ReadArray(toks, r.next, Append(acc, r.v))

NoDiffs == [isArray |-> FALSE, diffs |-> <<>>, inner |-> FALSE, innerDiffs |-> <<>>, next |-> 0]

RECURSIVE ReadObject(_, _, _)
\* The members diffs and data.diffs of the object whose "{" is toks[i - 1]
ReadObject(toks, i, acc) ==
    IF i >= Len(toks) \/ toks[i] = "}" THEN [acc EXCEPT !.next = i + 1]
    ELSE IF toks[i] = "diffs" /\ toks[i + 1] = "["
    THEN LET r == ReadArray(toks, i + 2, <<>>)
         IN  ReadObject(toks, r.next, [acc EXCEPT !.isArray = TRUE, !.diffs = r.v])
    ELSE IF toks[i] = "data" /\ toks[i + 1] = "{"
    THEN LET r == ReadObject(toks, i + 2, NoDiffs)
         IN  ReadObject(toks, r.next,
                        [acc EXCEPT !.inner = r.isArray, !.innerDiffs = r.diffs])
    ELSE ReadObject(toks, i + 2, acc)

\* res.json() as far as the callers read it: res.diffs and res.data.diffs
ParseJSON(toks) ==
    LET r == IF toks # <<>> /\ toks[1] = "{" THEN ReadObject(toks, 2, NoDiffs) ELSE NoDiffs
    IN  [diffsIsArray |-> r.isArray, diffs |-> r.diffs,
         dataDiffsIsArray |-> r.inner, dataDiffs |-> r.innerDiffs]

\* JSON.stringify(JSON.parse(body)) for the bodies nfPutJSON sends: { diffs }
Reserialize(body) ==
    LET p == ParseJSON(body)
    IN  IF p.diffsIsArray THEN StringifyDiffs(p.diffs) ELSE body

(* ------------------------------ the blob store -------------------------- *)

\* Bounds of the model: operator events in a session, failing network calls,
\* file loads in flight, writes in flight, distinct clock readings
MaxOps == 4
MaxFails == 1
MaxLoads == 2
MaxInFlight == 2
MaxTs == 1
MaxLoadedOps == 3
MaxRows == 2

KeyA == <<"n","s","/","a",".","c","s","v">>
KeyB == <<"n","s","/","b",".","c","s","v">>
KeyC == <<"n","s","/","c",".","c","s","v">>
KeyD == <<"n","s","/","d",".","c","s","v">>
Headers ==
    << <<"B","a","r","c","o","d","e">>, <<"N","a","m","e">>,
       <<"O","n"," ","H","a","n","d">>, <<"R","e","s","e","r","v","e","d">> >>

\* The barcode cells of the inventory tables
BarcodeCells == { <<"1","2","3">>, <<"0","1","2","3">>, <<"7">>, <<>> }

\* The i-th record of a table under the usual headers: the name tells the
\* position of the record in the file
RecordOf(cell, i) == << cell, <<"R">> \o NumberToString(i), <<"1","0">>, <<"2">> >>

\* The files under the usual headers, of one to MaxRows records; the key of a
\* file spells its barcode cells
RowFiles ==
    { [key  |-> <<"n","s","/","r">> \o Join(cells, "_") \o <<".","c","s","v">>,
       text |-> [headers |-> Headers,
                 records |-> [i \in DOMAIN cells |-> RecordOf(cells[i], i)]]] :
        cells \in UNION { [1 .. n -> BarcodeCells] : n \in 1 .. MaxRows } }

\* Header lines as exporters write them
HeaderLines ==
    << << <<"S","K","U">>, <<"I","t","e","m">>, <<"Q","t","y">> >>,
       << <<"N","a","m","e">>, <<"U","P","C">>, <<"S","t","o","c","k">>,
          <<"A","l","l","o","c","a","t","e","d">> >>,
       << <<"C","o","d","e">>, <<"B","a","r"," ","C","o","d","e">>,
          <<"T","i","t","l","e">>,
          <<"O","n","-","H","a","n","d"," ","(","N","e","w",")">> >>,
       << <<"N","o","t","e","s">>, <<"B","a","r","c","o","d","e">>,
          <<"N","a","m","e">>, <<"O","n"," ","H","a","n","d">> >>,
       << <<"B","a","r","_","C","o","d","e">>, <<"P","r","o","d","u","c","t">>,
          <<"A","v","a","i","l","a","b","l","e">>,
          <<"C","o","m","m","i","t","t","e","d">>, <<"O","n"," ","H","o","l","d">> >>,
       << <<"B","a","r","c","o","d","e">>, <<"N","a","m","e">> >>,
       << <<"N","a","m","e">>, <<"O","n"," ","H","a","n","d">> >>,
       << <<"B","a","r","c","o","d","e">>, <<"O","n"," ","H","a","n","d">> >> >>

\* One file per header line, of one record: the cell of column j is the digit j
HeaderFiles ==
    { [key  |-> <<"n","s","/","h">> \o NumberToString(n) \o <<".","c","s","v">>,
       text |-> [headers |-> HeaderLines[n],
                 records |-> << [j \in DOMAIN HeaderLines[n] |-> NumberToString(j)] >>]] :
        n \in DOMAIN HeaderLines }

LoadedFiles == RowFiles \cup HeaderFiles
LoadedKeys == { f.key : f \in LoadedFiles }

FileKeys == {KeyA, KeyB, KeyC, KeyD} \cup LoadedKeys

\* The CSV stored under a file key, as the records of its lines
CsvOf(key) ==
    IF key = KeyA
    THEN [headers |-> Headers,
          records |-> << << <<"0","1">>, <<"A">>, <<"2">>, <<"0">> >>,
                         << <<"7">>, <<"P">>, <<"1">>, <<"1">> >>,
                         << <<"9">>, <<"F">>, <<"0">>, <<"0">> >> >>]
    ELSE IF key = KeyB
    THEN [headers |-> Headers,
          records |-> << << <<"1">>, <<"K">>, <<"3">>, <<"0">> >> >>]
    ELSE IF key = KeyC
    THEN [headers |-> Headers, records |-> <<>>]
    ELSE IF key = KeyD
    THEN [headers |-> SubSeq(Headers, 1, 2),
          records |-> << << <<"7">>, <<"P">> >> >>]
    ELSE (CHOOSE f \in LoadedFiles : f.key = key).text

\* Papa.parse with header: true: one object per record, in header order
parseCSVSmart(text) ==
    IF text.records = <<>>
    THEN [rows |-> <<>>, headers |-> <<>>, reason |-> "No rows parsed"]
    ELSE [rows |-> [i \in DOMAIN text.records |->
                        [j \in DOMAIN text.headers |->
                            [k |-> text.headers[j], v |-> text.records[i][j]]]],
          headers |-> text.headers, reason |-> ""]

\* JSON location for scans alongside the selected CSV
scansKeyFor(fileKey) ==
    LET parts  == Split(fileKey, "/")
        last   == parts[Len(parts)]
        base   == StripExt(IF last = <<>> THEN <<"f","i","l","e">> ELSE last)
        prefix == Join(SubSeq(parts, 1, Len(parts) - 1), "/")
    IN  (IF prefix # <<>> THEN prefix \o <<"/">> ELSE <<>>)
            \o <<"scans/">> \o base \o <<".json">>

RECURSIVE Dedupe(_, _)
\* Array.from(new Set(xs))
Dedupe(xs, seen) ==
    IF xs = <<>> THEN <<>>
    ELSE IF Head(xs) \in seen THEN Dedupe(Tail(xs), seen)
    ELSE <<Head(xs)>> \o Dedupe(Tail(xs), seen \cup {Head(xs)})

\* The candidate keys of loadScansForActive, in probing order
Candidates(fileKey) ==
    LET primary  == scansKeyFor(fileKey)
        parts    == Split(fileKey, "/")
        last     == parts[Len(parts)]
        filename == IF last = <<>> THEN <<"f","i","l","e">> ELSE last
        base     == StripExt(filename)
        rest     == SubSeq(parts, 1, Len(parts) - 1)
        namespaceFolder == IF rest = <<>> THEN <<>> ELSE rest[1]
        fallbackRoot == <<"scans/">> \o base \o <<".json">>
        fallbackNs   == IF namespaceFolder # <<>>
                        THEN namespaceFolder \o <<"/">> \o <<"scans/">> \o base \o <<".json">>
                        ELSE fallbackRoot
    IN  Dedupe(<<primary, fallbackNs, fallbackRoot>>, {})

\* blob-get-json: the stored text, or { ok: true, diffs: [] } when no blob
GetJsonHandler(st, key) == IF key \in DOMAIN st THEN st[key] ELSE StringifyOkEmpty

\* blob-put-json: store.set(key, JSON.stringify(JSON.parse(body)))
PutJsonHandler(st, key, body) ==
    [k \in DOMAIN st \cup {key} |-> IF k = key THEN Reserialize(body) ELSE st[k]]

\* A scan log of file A saved by an earlier session
EarlierLogA ==
    << [barcode |-> <<"7">>, name |-> <<"P">>, prevOnHand |-> 1, reserved |-> 1,
        actual |-> 4, delta |-> 3, ts |-> <<"T","0">>],
       [barcode |-> <<"0","1">>, name |-> <<"A">>, prevOnHand |-> 2, reserved |-> 0,
        actual |-> 2, delta |-> 0, ts |-> <<"T","0">>] >>

EmptyStore == [k \in {} |-> <<>>]

\* The store when the session starts: empty, or holding the earlier log of A
InitStores ==
    { EmptyStore,
      PutJsonHandler(EmptyStore, scansKeyFor(KeyA), StringifyDiffs(EarlierLogA)) }

\* A store of older saves: the log of A under the root fallback key only
LegacyStore ==
    PutJsonHandler(EmptyStore, Candidates(KeyA)[Len(Candidates(KeyA))],
                   StringifyDiffs(EarlierLogA))

(* --------------------------------- state -------------------------------- *)

\* The flags that only drive indicators (cloudBusy, saving) and the text of the
\* quantity input (actualQty, an input of SaveActual) are not state here.
VARIABLES
    activeKey,      \* useState(""): the selected file key
    rows,           \* useState([])
    cols,           \* useColumns(rows)
    index,          \* useMemo: normalized code -> row
    fileName,       \* useState("")
    error,          \* useState("")
    diffs,          \* useState([]): the diff log
    active,         \* useState(null): the Active item
    notFound,       \* useState("")
    lastSavedRef,   \* useRef(""): the last saved snapshot
    store,          \* the blob store: key -> JSON text
    loads,          \* handleChooseCloudFile calls in flight
    autoSaves,      \* auto-save effect instances: pending timers and writes
    budget,         \* the operator events left, the failures so far, the caps in force
    written,        \* history: scan key -> the diff log of its last served write
    produced,       \* history: file key -> the last log confirm/reset made for it
    lastOp,         \* history: the last operator event and what showed before it
    cloudFiles,     \* useState([]): the keys of the file list
    exported,       \* the file the last export handed to the browser
    rejected        \* history: a put-JSON of the auto-save has been rejected

vars == <<activeKey, rows, cols, index, fileName, error, diffs, active, notFound,
          lastSavedRef, store, loads, autoSaves, budget, written, produced, lastOp,
          cloudFiles, exported, rejected>>

NullItem == [isNull |-> TRUE, barcode |-> <<>>, name |-> <<>>, onHand |-> 0, reserved |-> 0]

NoLog == [set |-> FALSE, log |-> <<>>]
SomeLog(d) == [set |-> TRUE, log |-> d]
NoExport == [name |-> <<>>, data |-> <<>>]

InitState ==
    /\ activeKey = <<>>
    /\ rows = <<>>
    /\ cols = NullCols
    /\ index = EmptyMap
    /\ fileName = <<>>
    /\ error = ""
    /\ diffs = <<>>
    /\ active = NullItem
    /\ notFound = <<>>
    /\ lastSavedRef = <<>>
    /\ loads = <<>>
    /\ autoSaves = <<>>
    /\ written = [k \in DOMAIN store |-> EarlierLogA]
    /\ produced = [k \in FileKeys |-> NoLog]
    /\ lastOp = [op |-> "none", wasActive |-> FALSE, wasNotFound |-> FALSE]
    /\ exported = NoExport
    /\ rejected = FALSE

\* The sessions explored: a long one on a reliable network, a shorter one in
\* which network calls may fail, a short one in which file loads may overlap
Budgets ==
    { [ops |-> MaxOps, mayFail |-> 0, loads |-> 1, puts |-> MaxInFlight, failed |-> 0],
      [ops |-> MaxOps - 1, mayFail |-> MaxFails, loads |-> 1, puts |-> MaxInFlight, failed |-> 0],
      [ops |-> MaxOps - 2, mayFail |-> 0, loads |-> MaxLoads, puts |-> MaxInFlight, failed |-> 0] }

\* The file lists and stores the sessions start from: two good files with an
\* empty store or an earlier log, under every budget; a good file and one
\* without rows; a good file and one without an on-hand column; a store of
\* older saves
Sessions ==
    { [files |-> {KeyA, KeyB}, store |-> s, budget |-> b] : s \in InitStores, b \in Budgets }
    \cup
    { [files |-> {KeyA, KeyC}, store |-> EmptyStore,
       budget |-> [ops |-> MaxOps, mayFail |-> 0, loads |-> 1, puts |-> MaxInFlight, failed |-> 0]],
      [files |-> {KeyA, KeyD}, store |-> EmptyStore,
       budget |-> [ops |-> MaxOps - 1, mayFail |-> 0, loads |-> 1, puts |-> MaxInFlight, failed |-> 0]],
      [files |-> {KeyA}, store |-> LegacyStore,
       budget |-> [ops |-> MaxOps - 2, mayFail |-> MaxFails, loads |-> 1, puts |-> MaxInFlight, failed |-> 0]] }

Init ==
    /\ \E s \in Sessions :
          /\ cloudFiles = s.files
          /\ store = s.store
          /\ budget = s.budget
    /\ InitState

RemoveAt(s, i) == SubSeq(s, 1, i - 1) \o SubSeq(s, i + 1, Len(s))

\* An operator event spends one unit of the budget of events
Spend(op) ==
    /\ budget.ops > 0
    /\ budget' = [budget EXCEPT !.ops = @ - 1]
    /\ lastOp' = [op |-> op, wasActive |-> ~active.isNull, wasNotFound |-> notFound # <<>>]

\* A network call succeeds, or fails while the budget of failures lasts
Settle(ok) ==
    /\ ok \/ budget.failed < budget.mayFail
    /\ budget' = IF ok THEN budget ELSE [budget EXCEPT !.failed = @ + 1]

(* --------------------------- debounced auto-save ------------------------ *)

\* A variant of the cleanup that leaves the timers running
NoCleanup(effs) == effs

\* The cleanup of the previous effect: cancelled = true; clearTimeout(timer)
Cleanup(effs) ==
    LET kept == SelectSeq(effs, LAMBDA e : e.phase # "timer")
    IN  [i \in DOMAIN kept |-> [kept[i] EXCEPT !.cancelled = TRUE]]

\* useEffect(..., [activeKey, diffs]): runs when activeKey or diffs changed
autoSaveEffect(ak, d, saved, effs) ==
    LET cleaned == Cleanup(effs)
        payload == StringifyDiffs(d)
    IN  IF ak = <<>> THEN cleaned
        ELSE IF payload = saved THEN cleaned
        ELSE Append(cleaned, [key |-> ak, diffs |-> d, payload |-> payload,
                              cancelled |-> FALSE, phase |-> "timer"])

InFlight(effs) == { i \in DOMAIN effs : effs[i].phase # "timer" }

\* The 800 ms timer fires: nfPutJSON(scansKeyFor(activeKey), { diffs }) is sent
TimerFire(i) ==
    /\ i \in DOMAIN autoSaves
    /\ autoSaves[i].phase = "timer"
    /\ ~autoSaves[i].cancelled
    /\ Cardinality(InFlight(autoSaves)) < budget.puts
    /\ autoSaves' = [autoSaves EXCEPT ![i].phase = "sent"]
    /\ UNCHANGED <<activeKey, rows, cols, index, fileName, error, diffs, active,
                   notFound, lastSavedRef, store, loads, budget, written, produced, lastOp,
                   cloudFiles, exported, rejected>>

\* blob-put-json handles the request: the store is written, or the call fails
PutServe(i, ok) ==
    /\ i \in DOMAIN autoSaves
    /\ autoSaves[i].phase = "sent"
    /\ Settle(ok)
    /\ LET key == scansKeyFor(autoSaves[i].key)
       IN  IF ok
           THEN /\ store' = PutJsonHandler(store, key, StringifyDiffs(autoSaves[i].diffs))
                /\ written' = [k \in DOMAIN written \cup {key} |->
                                  IF k = key THEN autoSaves[i].diffs ELSE written[k]]
           ELSE UNCHANGED <<store, written>>
    /\ autoSaves' = [autoSaves EXCEPT ![i].phase = IF ok THEN "ok" ELSE "failed"]
    /\ UNCHANGED <<activeKey, rows, cols, index, fileName, error, diffs, active,
                   notFound, lastSavedRef, loads, produced, lastOp,
                   cloudFiles, exported, rejected>>

\* A variant of the settle that records the payload of a rejected write too
PutSettleKeepsPayload(i) ==
    /\ i \in DOMAIN autoSaves
    /\ autoSaves[i].phase \in {"ok", "failed"}
    /\ lastSavedRef' = autoSaves[i].payload
    /\ autoSaves' = RemoveAt(autoSaves, i)
    /\ UNCHANGED <<activeKey, rows, cols, index, fileName, error, diffs, active,
                   notFound, store, loads, budget, written, produced, lastOp,
                   cloudFiles, exported>>
    /\ rejected' = (rejected \/ autoSaves[i].phase = "failed")

\* The await of nfPutJSON settles: lastSavedRef.current = payload on success
PutSettle(i) ==
    /\ i \in DOMAIN autoSaves
    /\ autoSaves[i].phase \in {"ok", "failed"}
    /\ lastSavedRef' = IF autoSaves[i].phase = "ok" THEN autoSaves[i].payload
                       ELSE lastSavedRef
    /\ autoSaves' = RemoveAt(autoSaves, i)
    /\ UNCHANGED <<activeKey, rows, cols, index, fileName, error, diffs, active,
                   notFound, store, loads, budget, written, produced, lastOp,
                   cloudFiles, exported>>
    /\ rejected' = (rejected \/ autoSaves[i].phase = "failed")

(* ------------------------------ loading a file -------------------------- *)

\* key.split("/").pop()
BaseName(key) == LET parts == Split(key, "/") IN parts[Len(parts)]

\* handleChooseCloudFile(key) up to its first await: setActiveKey(key), then
\* loadCSVFromCloud sends nfDownload.  The <select> fires onChange only for a
\* key other than the one it shows.
handleChooseCloudFile(key) ==
    /\ key \in cloudFiles
    /\ key # activeKey
    /\ Len(loads) < budget.loads
    /\ Spend("choose")
    /\ activeKey' = key
    /\ loads' = Append(loads, [key |-> key, pc |-> "download", cand |-> 0,
                               phase |-> "sent", ok |-> FALSE, body |-> <<>>])
    /\ autoSaves' = autoSaveEffect(key, diffs, lastSavedRef, autoSaves)
    /\ UNCHANGED <<rows, cols, index, fileName, error, diffs, active, notFound,
                   lastSavedRef, store, written, produced,
                   cloudFiles, exported, rejected>>

\* loadCSVFromCloud after the await of nfDownload, then the start of
\* loadScansForActive: nfGetJSON for the first candidate is sent
loadCSVFromCloud(i, ok) ==
    /\ i \in DOMAIN loads
    /\ loads[i].pc = "download"
    /\ Settle(ok)
    /\ LET key    == loads[i].key
           result == parseCSVSmart(CsvOf(key))
       IN  /\ IF ok
              THEN /\ rows' = result.rows
                   /\ cols' = useColumns(result.rows)
                   /\ index' = buildIndex(result.rows, useColumns(result.rows))
                   /\ fileName' = BaseName(key)
                   /\ diffs' = <<>>
                   /\ notFound' = <<>>
                   /\ error' = result.reason
                   /\ autoSaves' = autoSaveEffect(activeKey, <<>>, lastSavedRef, autoSaves)
              ELSE /\ error' = "Download failed"
                   /\ UNCHANGED <<rows, cols, index, fileName, diffs, notFound, autoSaves>>
           /\ loads' = [loads EXCEPT ![i] = [key |-> key, pc |-> "get", cand |-> 1,
                                             phase |-> "sent", ok |-> FALSE, body |-> <<>>]]
    /\ UNCHANGED <<activeKey, active, lastSavedRef, store, written, produced, lastOp,
                   cloudFiles, exported, rejected>>

\* blob-get-json handles the request for the current candidate, or fails
GetServe(i, ok) ==
    /\ i \in DOMAIN loads
    /\ loads[i].pc = "get"
    /\ loads[i].phase = "sent"
    /\ Settle(ok)
    /\ loads' = [loads EXCEPT ![i].phase = "served", ![i].ok = ok,
                     ![i].body = IF ok
                                 THEN GetJsonHandler(store, Candidates(loads[i].key)[loads[i].cand])
                                 ELSE <<>>]
    /\ UNCHANGED <<activeKey, rows, cols, index, fileName, error, diffs, active,
                   notFound, lastSavedRef, store, autoSaves, written, produced, lastOp,
                   cloudFiles, exported, rejected>>

\* loadScansForActive after the await of nfGetJSON for one candidate
loadScansForActive(i) ==
    /\ i \in DOMAIN loads
    /\ loads[i].pc = "get"
    /\ loads[i].phase = "served"
    /\ LET res   == ParseJSON(loads[i].body)
           found == loads[i].ok /\ (res.diffsIsArray \/ res.dataDiffsIsArray)
           got   == IF res.diffsIsArray THEN res.diffs ELSE res.dataDiffs
           last  == loads[i].cand = Len(Candidates(loads[i].key))
           d     == IF found THEN got ELSE <<>>
       IN  IF found \/ last
           THEN /\ diffs' = d
                /\ lastSavedRef' = StringifyDiffs(d)
                /\ loads' = RemoveAt(loads, i)
                /\ autoSaves' = autoSaveEffect(activeKey, d, StringifyDiffs(d), autoSaves)
           ELSE /\ loads' = [loads EXCEPT ![i].cand = @ + 1, ![i].phase = "sent",
                                 ![i].ok = FALSE, ![i].body = <<>>]
                /\ UNCHANGED <<diffs, lastSavedRef, autoSaves>>
    /\ UNCHANGED <<activeKey, rows, cols, index, fileName, error, active, notFound,
                   store, budget, written, produced, lastOp,
                   cloudFiles, exported, rejected>>

(* ---------------------------- scanning & actions ------------------------ *)

\* What the scanner or the operator types
ScanCodes == { <<"0","1">>, <<"7">>, <<" ","9">> }
QtyInputs == { <<"4">> }
Timestamps == 1 .. MaxTs

\* What is scanned and typed against a file that is already loaded
LoadedCodes == { <<"0","0","1","2","3">>, <<"1","2","3">>, <<"7">>, <<"2">> }
LoadedQty == { <<"8">>, <<"-","2">>, <<>> }

\* new Date().toISOString()
ISOString(t) == <<"T">> \o NumberToString(t)

\* Variants of the scan: a lookup that takes any row of the index, and a scan
\* that records the Active item it replaces
AnyHit(cands, m) ==
    IF DOMAIN m = {} THEN <<>> ELSE m[CHOOSE k \in DOMAIN m : TRUE]

RECURSIVE FirstHit(_, _)
\* for (const k of candidates) { r = index.get(k); if (r) break; }
FirstHit(cands, m) ==
    IF cands = <<>> THEN <<>>
    ELSE IF Head(cands) \in DOMAIN m THEN m[Head(cands)]
    ELSE FirstHit(Tail(cands), m)

\* Variants of the upsert: one that keeps the earlier entry of the barcode, one
\* that puts the new entry last
UpsertKeepsEarlier(d, entry) == <<entry>> \o d

UpsertAppends(d, entry) ==
    SelectSeq(d, LAMBDA x : x.barcode # entry.barcode) \o <<entry>>

\* setDiffs((d) => [entry, ...d.filter((x) => x.barcode !== entry.barcode)])
Upsert(d, entry) ==
    <<entry>> \o SelectSeq(d, LAMBDA x : x.barcode # entry.barcode)

onBarcodeScanRecordsPrevious(scanned) ==
    /\ scanned \in ScanCodes
    /\ ~cols.isNull
    /\ Spend("scan")
    /\ LET r     == FirstHit(normVariants(scanned), index)
           entry == [barcode |-> active.barcode, name |-> active.name,
                     prevOnHand |-> active.onHand, reserved |-> active.reserved,
                     actual |-> active.onHand, delta |-> 0, ts |-> ISOString(1)]
           d     == IF active.isNull THEN diffs ELSE Upsert(diffs, entry)
       IN  /\ IF r = <<>>
              THEN active' = NullItem /\ notFound' = normVariants(scanned)[1]
              ELSE /\ active' = [isNull |-> FALSE,
                                 barcode |-> Trim(Cell(r, cols.barcode)),
                                 name |-> Trim(Cell(r, cols.name)),
                                 onHand |-> toNumber(Str(Cell(r, cols.onHand))),
                                 reserved |-> toNumber(Str(Cell(r, cols.reserved)))]
                   /\ notFound' = <<>>
           /\ diffs' = d
           /\ autoSaves' = autoSaveEffect(activeKey, d, lastSavedRef, autoSaves)
    /\ UNCHANGED <<activeKey, rows, cols, index, fileName, error,
                   lastSavedRef, store, loads, written, produced,
                   cloudFiles, exported, rejected>>

\* A variant of the scan that does not look at cols
onBarcodeScanUnguarded(scanned) ==
    /\ scanned \in ScanCodes
    /\ Spend("scan")
    /\ LET r == FirstHit(normVariants(scanned), index)
       IN  IF r = <<>>
           THEN active' = NullItem /\ notFound' = normVariants(scanned)[1]
           ELSE /\ active' = [isNull |-> FALSE,
                              barcode |-> Trim(Cell(r, cols.barcode)),
                              name |-> Trim(Cell(r, cols.name)),
                              onHand |-> toNumber(Str(Cell(r, cols.onHand))),
                              reserved |-> toNumber(Str(Cell(r, cols.reserved)))]
                /\ notFound' = <<>>
    /\ UNCHANGED <<activeKey, rows, cols, index, fileName, error, diffs,
                   lastSavedRef, store, loads, autoSaves, written, produced,
                   cloudFiles, exported, rejected>>

\* Enter in the barcode input; the input is disabled while cols is null
onBarcodeScan(scanned) ==
    /\ scanned \in ScanCodes \cup LoadedCodes
    /\ ~cols.isNull
    /\ Spend("scan")
    /\ LET candidates == normVariants(scanned)
           r          == FirstHit(candidates, index)
           item       == [isNull   |-> FALSE,
                          barcode  |-> Trim(Cell(r, cols.barcode)),
                          name     |-> Trim(Cell(r, cols.name)),
                          onHand   |-> toNumber(Str(Cell(r, cols.onHand))),
                          reserved |-> toNumber(Str(Cell(r, cols.reserved)))]
       IN  IF r = <<>>
           THEN /\ active' = NullItem
                /\ notFound' = candidates[1]
           ELSE /\ active' = item
                /\ notFound' = <<>>
    /\ UNCHANGED <<activeKey, rows, cols, index, fileName, error, diffs,
                   lastSavedRef, store, loads, autoSaves, written, produced,
                   cloudFiles, exported, rejected>>

\* The history of the logs made for the selected file
Produce(d) ==
    produced' = IF activeKey = <<>> THEN produced
                ELSE [produced EXCEPT ![activeKey] = SomeLog(d)]

\* confirmQty(actual): "Confirm <on hand>" passes the number active.onHand,
\* Enter and "Save Actual" pass the text of the input
confirmQty(actual, t) ==
    /\ ~active.isNull
    /\ t \in Timestamps
    /\ Spend("confirm")
    /\ LET prev  == active.onHand
           entry == [barcode    |-> active.barcode,
                     name       |-> active.name,
                     prevOnHand |-> prev,
                     reserved   |-> active.reserved,
                     actual     |-> toNumber(actual),
                     delta      |-> toNumber(actual) - toNumber(Num(prev)),
                     ts         |-> ISOString(t)]
       IN  /\ diffs' = Upsert(diffs, entry)
           /\ autoSaves' = autoSaveEffect(activeKey, Upsert(diffs, entry),
                                          lastSavedRef, autoSaves)
           /\ Produce(Upsert(diffs, entry))
    /\ active' = NullItem
    /\ UNCHANGED <<activeKey, rows, cols, index, fileName, error, notFound,
                   lastSavedRef, store, loads, written,
                   cloudFiles, exported, rejected>>

\* A variant of the cancel that drops the diff log
cancelClears ==
    /\ ~active.isNull
    /\ Spend("cancel")
    /\ active' = NullItem
    /\ diffs' = <<>>
    /\ autoSaves' = autoSaveEffect(activeKey, <<>>, lastSavedRef, autoSaves)
    /\ UNCHANGED <<activeKey, rows, cols, index, fileName, error, notFound,
                   lastSavedRef, store, loads, written, produced,
                   cloudFiles, exported, rejected>>

\* Escape, the Cancel button or a click on the overlay: setActive(null)
cancel ==
    /\ ~active.isNull
    /\ Spend("cancel")
    /\ active' = NullItem
    /\ UNCHANGED <<activeKey, rows, cols, index, fileName, error, diffs, notFound,
                   lastSavedRef, store, loads, autoSaves, written, produced,
                   cloudFiles, exported, rejected>>

\* The Reset button
clearAll ==
    /\ Spend("reset")
    /\ diffs' = <<>>
    /\ active' = NullItem
    /\ notFound' = <<>>
    /\ autoSaves' = autoSaveEffect(activeKey, <<>>, lastSavedRef, autoSaves)
    /\ Produce(<<>>)
    /\ UNCHANGED <<activeKey, rows, cols, index, fileName, error, lastSavedRef,
                   store, loads, written,
                   cloudFiles, exported, rejected>>

\* The object made of one entry for Papa.unparse, its fields in column order
ExportRow(d) ==
    << [k |-> "Barcode",        v |-> Str(d.barcode)],
       [k |-> "Name",           v |-> Str(d.name)],
       [k |-> "Prev On Hand",   v |-> Num(d.prevOnHand)],
       [k |-> "Reserved",       v |-> Num(d.reserved)],
       [k |-> "Actual On Hand", v |-> Num(d.actual)],
       [k |-> "Delta",          v |-> Num(d.delta)],
       [k |-> "Timestamp",      v |-> Str(d.ts)] >>

\* diffs.map((d) => ({ Barcode: d.barcode, ... }))
ExportData(d) == [i \in DOMAIN d |-> ExportRow(d[i])]

\* fileName?.replace(/\.[^.]+$/, "") || "inventory"
ExportStem ==
    IF StripExt(fileName) = <<>> THEN <<"inventory">> ELSE StripExt(fileName)

\* A variant of the Differences filter that keeps the surpluses only
OnlySurplus(d) == SelectSeq(d, LAMBDA x : x.delta > 0)

\* diffs.filter((d) => d.delta !== 0)
Differences(d) == SelectSeq(d, LAMBDA x : x.delta # 0)

\* The "Export Differences" button, disabled while the diff log is empty
exportDifferencesCSV ==
    /\ diffs # <<>>
    /\ Spend("exportDifferences")
    /\ exported' = [name |-> ExportStem \o <<"_differences.csv">>,
                    data |-> ExportData(Differences(diffs))]
    /\ UNCHANGED <<activeKey, rows, cols, index, fileName, error, diffs, active,
                   notFound, lastSavedRef, store, loads, autoSaves, written,
                   produced, cloudFiles, rejected>>

\* The "Export All Scans" button, disabled while the diff log is empty
exportAllScansCSV ==
    /\ diffs # <<>>
    /\ Spend("exportAll")
    /\ exported' = [name |-> ExportStem \o <<"_all_scans.csv">>,
                    data |-> ExportData(diffs)]
    /\ UNCHANGED <<activeKey, rows, cols, index, fileName, error, diffs, active,
                   notFound, lastSavedRef, store, loads, autoSaves, written,
                   produced, cloudFiles, rejected>>

(* ------------------------------ specification --------------------------- *)

ChooseFile == \E key \in cloudFiles : handleChooseCloudFile(key)
DownloadSettles == \E i \in DOMAIN loads, ok \in BOOLEAN : loadCSVFromCloud(i, ok)
GetJsonServed == \E i \in DOMAIN loads, ok \in BOOLEAN : GetServe(i, ok)
GetJsonSettles == \E i \in DOMAIN loads : loadScansForActive(i)
DebounceElapses == \E i \in DOMAIN autoSaves : TimerFire(i)
PutJsonServed == \E i \in DOMAIN autoSaves, ok \in BOOLEAN : PutServe(i, ok)
PutJsonSettles == \E i \in DOMAIN autoSaves : PutSettle(i)
Scan == \E scanned \in ScanCodes : onBarcodeScan(scanned)
ConfirmOnHand == \E t \in Timestamps : confirmQty(Num(active.onHand), t)
\* The text of the input is String(active.onHand) after the scan, or what the
\* operator has typed over it
SaveActual ==
    \E text \in QtyInputs \cup {NumberToString(active.onHand)}, t \in Timestamps :
        confirmQty(Str(text), t)
Cancel == cancel
Reset == clearAll

Next ==
    \/ ChooseFile
    \/ DownloadSettles
    \/ GetJsonServed
    \/ GetJsonSettles
    \/ DebounceElapses
    \/ PutJsonServed
    \/ PutJsonSettles
    \/ Scan
    \/ ConfirmOnHand
    \/ SaveActual
    \/ Cancel
    \/ Reset

Spec == Init /\ [][Next]_vars

(* ------------------------- a file already loaded ----------------------- *)

\* A scan log of the file saved by an earlier session: a shortage, a match and
\* a surplus
LoadedLog ==
    << [barcode |-> <<"7">>, name |-> <<"R","1">>, prevOnHand |-> 10, reserved |-> 2,
        actual |-> 8, delta |-> 0 - 2, ts |-> <<"T","0">>],
       [barcode |-> <<"1","2","3">>, name |-> <<"R","2">>, prevOnHand |-> 10,
        reserved |-> 2, actual |-> 10, delta |-> 0, ts |-> <<"T","0">>],
       [barcode |-> <<"9">>, name |-> <<"F">>, prevOnHand |-> 0, reserved |-> 0,
        actual |-> 3, delta |-> 3, ts |-> <<"T","0">>] >>

LoadedLogs == { <<>>, LoadedLog }

\* A session on one file of the store, whose scan log is absent or was saved
\* by an earlier session
InitLoaded ==
    /\ \E key \in LoadedKeys, d \in LoadedLogs :
        /\ cloudFiles = {key}
        /\ store = IF d = <<>> THEN EmptyStore
                   ELSE PutJsonHandler(EmptyStore, scansKeyFor(key), StringifyDiffs(d))
    /\ budget = [ops |-> MaxLoadedOps, mayFail |-> 0, loads |-> 1, puts |-> 1, failed |-> 0]
    /\ activeKey = <<>>
    /\ rows = <<>>
    /\ cols = NullCols
    /\ index = EmptyMap
    /\ fileName = <<>>
    /\ error = ""
    /\ diffs = <<>>
    /\ active = NullItem
    /\ notFound = <<>>
    /\ lastSavedRef = <<>>
    /\ loads = <<>>
    /\ autoSaves = <<>>
    /\ written = [k \in DOMAIN store |-> LoadedLog]
    /\ produced = [k \in FileKeys |-> NoLog]
    /\ lastOp = [op |-> "none", wasActive |-> FALSE, wasNotFound |-> FALSE]
    /\ exported = NoExport
    /\ rejected = FALSE

ScanLoaded == \E scanned \in LoadedCodes : onBarcodeScan(scanned)
SaveTyped ==
    \E text \in LoadedQty, t \in Timestamps : confirmQty(Str(text), t)
ExportDifferences == exportDifferencesCSV
ExportAllScans == exportAllScansCSV

NextLoaded ==
    \/ ChooseFile
    \/ DownloadSettles
    \/ GetJsonServed
    \/ GetJsonSettles
    \/ ScanLoaded
    \/ ConfirmOnHand
    \/ SaveTyped
    \/ Cancel
    \/ Reset
    \/ ExportDifferences
    \/ ExportAllScans
    \/ DebounceElapses
    \/ PutJsonServed
    \/ PutJsonSettles

SpecLoaded == InitLoaded /\ [][NextLoaded]_vars

(* ------------------------------- properties ----------------------------- *)

Barcodes(d) == { d[i].barcode : i \in DOMAIN d }
Without(d, b) == SelectSeq(d, LAMBDA x : x.barcode # b)
IsConfirm == ConfirmOnHand \/ SaveActual
EarlierTs == <<"T", "0">>

\* C1: the diff log never holds two entries with the same barcode, whatever
\* scans, confirms, cancels, resets and file loads came before, the load of a
\* persisted scan log included.
C1_OneEntryPerBarcode ==
    \A i, j \in DOMAIN diffs : diffs[i].barcode = diffs[j].barcode => i = j

\* C1 happens: a persisted log of two entries was loaded and the barcode of its
\* first entry confirmed again in this session.
C1_Witness ==
    /\ lastOp.op = "confirm"
    /\ Len(diffs) = 2
    /\ diffs[1].barcode = EarlierLogA[1].barcode
    /\ diffs[1].ts # EarlierTs
    /\ diffs[2] = EarlierLogA[2]

\* C2: a confirm on the Active item with barcode b leaves the new entry for b
\* first, no other entry for b, and every other entry in its previous relative
\* order; the length grows by one if b was absent and is unchanged otherwise.
C2_UpsertMostRecentFirst ==
    [][IsConfirm =>
        LET b == active.barcode
        IN  /\ diffs' # <<>>
            /\ diffs'[1].barcode = b
            /\ diffs'[1].prevOnHand = active.onHand
            /\ diffs'[1].name = active.name
            /\ b \notin Barcodes(Tail(diffs'))
            /\ Tail(diffs') = Without(diffs, b)
            /\ Len(diffs') = IF b \in Barcodes(diffs) THEN Len(diffs) ELSE Len(diffs) + 1]_vars

\* C2 happens: the second entry of a loaded log was confirmed again and moved
\* to the front, the length unchanged.
C2_Witness ==
    /\ lastOp.op = "confirm"
    /\ Len(diffs) = 2
    /\ diffs[1].barcode = EarlierLogA[2].barcode
    /\ diffs[1].ts # EarlierTs
    /\ diffs[2] = EarlierLogA[1]

\* C3: a scan that hits the index while an item is Active makes the scanned
\* row the Active item and records nothing: the diff log, the store and the
\* scheduled writes are as before.
C3_ScanReplacesActive ==
    [][\A scanned \in ScanCodes :
          (onBarcodeScan(scanned) /\ ~active.isNull /\ FirstHit(normVariants(scanned), index) # <<>>)
          => /\ ~active'.isNull
             /\ normCode(active'.barcode) \in Range(normVariants(scanned))
             /\ diffs' = diffs
             /\ autoSaves' = autoSaves
             /\ store' = store]_vars

\* C3 happens: the last event was a scan while an item was Active, another item
\* is Active now.
C3_Witness ==
    /\ lastOp.op = "scan"
    /\ lastOp.wasActive
    /\ ~active.isNull
    /\ active.barcode = <<"7">>
    /\ diffs = <<>>
    /\ produced[KeyA] = NoLog

\* C4: a cancel leaves no item Active and changes neither the diff log, the
\* rows nor the selected file; it schedules and sends no write.
C4_CancelKeepsLog ==
    [][Cancel =>
        /\ active'.isNull
        /\ diffs' = diffs
        /\ rows' = rows
        /\ activeKey' = activeKey
        /\ autoSaves' = autoSaves
        /\ store' = store
        /\ lastSavedRef' = lastSavedRef]_vars

\* C4 happens: the last event was a cancel of an Active item, with entries in
\* the diff log.
C4_Witness ==
    /\ lastOp.op = "cancel"
    /\ lastOp.wasActive
    /\ active.isNull
    /\ diffs # <<>>

AllMiss(scanned) == \A k \in Range(normVariants(scanned)) : k \notin DOMAIN index
IsMiss == \E scanned \in ScanCodes : onBarcodeScan(scanned) /\ AllMiss(scanned)
IsHit == \E scanned \in ScanCodes : onBarcodeScan(scanned) /\ ~AllMiss(scanned)

Timers(effs) == { i \in DOMAIN effs : effs[i].phase = "timer" }
Sent(effs) == { i \in DOMAIN effs : effs[i].phase = "sent" }
Quiescent == loads = <<>> /\ autoSaves = <<>>

\* The store holds the log d for file k; a file without a blob has the empty log
Saved(k, d) ==
    IF scansKeyFor(k) \in DOMAIN store
    THEN store[scansKeyFor(k)] = StringifyDiffs(d)
    ELSE d = <<>>

\* C6: every log that a confirm or a reset made for a file is saved in the end:
\* once no load, no timer and no write is left and no network call has failed,
\* the store holds under the scan key of each file the last log made for it.
C6_EveryChangeSaved ==
    (Quiescent /\ budget.failed = 0)
    => \A k \in FileKeys : produced[k].set => Saved(k, produced[k].log)

\* C7: a change of the diff log replaces the pending timer, so at most one
\* timer is pending and it carries the selected file and the current diff log;
\* when it fires, the one write it sends has the diff log after the last
\* change as payload and no other timer is left to fire.
C7_Debounce ==
    [][/\ Cardinality(Timers(autoSaves')) <= 1
       /\ \A i \in Timers(autoSaves') :
             /\ autoSaves'[i].key = activeKey'
             /\ autoSaves'[i].diffs = diffs'
             /\ autoSaves'[i].payload = StringifyDiffs(diffs')
       /\ \A i \in DOMAIN autoSaves :
             TimerFire(i)
             => /\ autoSaves[i].diffs = diffs
                /\ autoSaves'[i].phase = "sent"
                /\ Timers(autoSaves') = {}]_vars

\* C7 happens: a confirm and a reset came in a row on a loaded log; one write
\* is in flight, for the log after the reset, and the store still holds the
\* loaded log.
C7_Witness ==
    /\ lastOp.op = "reset"
    /\ activeKey = KeyA
    /\ loads = <<>>
    /\ produced[KeyA] = SomeLog(<<>>)
    /\ Len(autoSaves) = 1
    /\ autoSaves[1].phase = "sent"
    /\ autoSaves[1].diffs = <<>>
    /\ Saved(KeyA, EarlierLogA)
    /\ lastSavedRef = StringifyDiffs(EarlierLogA)

\* C8: no two writes of one scan log are in flight at a time.
C8_WritesSerialized ==
    \A i, j \in Sent(autoSaves) :
        scansKeyFor(autoSaves[i].key) = scansKeyFor(autoSaves[j].key) => i = j

\* C9: no write is sent whose payload is the last saved snapshot.
C9_NoRedundantWrite ==
    [][\A i \in DOMAIN autoSaves :
          TimerFire(i) => autoSaves[i].payload # lastSavedRef]_vars

FirstFallback(fileKey) ==
    LET c    == Candidates(fileKey)
        held == { j \in 2 .. Len(c) : c[j] \in DOMAIN store }
    IN  IF held = {} THEN 0 ELSE CHOOSE j \in held : \A h \in held : j <= h

\* C11: a scan log stored only under a fallback key is loaded: when the load
\* of a file ends while nothing is stored under the primary key and a fallback
\* key holds a log, the diff log is the log of the first such fallback.
C11_FallbackLoaded ==
    [][\A i \in DOMAIN loads :
          LET c == Candidates(loads[i].key)
              j == FirstFallback(loads[i].key)
          IN  ( /\ loadScansForActive(i)
                /\ loads' = RemoveAt(loads, i)
                /\ budget.failed = 0
                /\ c[1] \notin DOMAIN store
                /\ j # 0 )
              => diffs' = written[c[j]]]_vars

NoRows(fileKey) == parseCSVSmart(CsvOf(fileKey)).rows = <<>>

\* C12: when the load of a selected file whose CSV yields no rows has ended,
\* the row set is empty, the diff log is empty and the error field carries the
\* parse-failure message.
C12_ParseFailureClears ==
    [][\A i \in DOMAIN loads :
          ( /\ loadScansForActive(i)
            /\ loads' = <<>>
            /\ NoRows(loads[i].key)
            /\ budget.failed = 0 )
          => /\ rows' = <<>>
             /\ diffs' = <<>>
             /\ error' = parseCSVSmart(CsvOf(loads[i].key)).reason
             /\ error' # ""]_vars

\* The headers of the rows leave barcode, name or on hand unmapped
SchemaFailure(rs) == rs # <<>> /\ mapColumns(ObjectKeys(rs[1])).isNull

\* C13: while the headers of the loaded file leave a required column unmapped,
\* the mapping is undefined, which shows the message that the required headers
\* were not found, and no scan takes place: the Active item, NotFound and the
\* diff log are never changed by a scan; the mapping becomes defined again only
\* when the download of a file with a valid mapping settles.
C13_SchemaFailureDisablesScan ==
    [][/\ rows' = rows => cols' = cols
       /\ rows' # rows => (SchemaFailure(rows') => cols'.isNull)
       /\ \A scanned \in ScanCodes :
             (cols.isNull /\ onBarcodeScan(scanned))
             => (active' = active /\ notFound' = notFound /\ diffs' = diffs)
       /\ (cols.isNull /\ ~cols'.isNull)
             => (DownloadSettles /\ rows' # <<>> /\ ~SchemaFailure(rows'))]_vars

\* C13 happens: the file without an on-hand column is loaded: rows without a
\* mapping, and an operator event has been handled since it was selected.
C13_Witness ==
    /\ activeKey = KeyD
    /\ loads = <<>>
    /\ rows # <<>>
    /\ cols.isNull
    /\ SchemaFailure(rows)
    /\ lastOp.op = "reset"
    /\ active.isNull /\ notFound = <<>>

\* C14: every failing store operation ends in a non-empty error field: the
\* failed download, the failed get-JSON of the scan log and the failed
\* put-JSON of the auto-save.
C14_FailuresSurface ==
    [][/\ \A i \in DOMAIN loads : loadCSVFromCloud(i, FALSE) => error' # ""
       /\ \A i \in DOMAIN loads :
             (loadScansForActive(i) /\ ~loads[i].ok) => error' # ""
       /\ \A i \in DOMAIN autoSaves :
             (PutSettle(i) /\ autoSaves[i].phase = "failed") => error' # ""]_vars

Rejects(i) == PutSettle(i) /\ autoSaves[i].phase = "failed"
CarriesLog(effs, ak, d) == \E i \in Timers(effs) : effs[i].key = ak /\ effs[i].diffs = d

\* C15 as stated: once a write has been rejected, a change of the diff log
\* schedules a new write carrying the diff log after the change.
C15_ChangeSchedulesWrite ==
    [][(rejected /\ activeKey # <<>> /\ (IsConfirm \/ Reset))
          => CarriesLog(autoSaves', activeKey', diffs')]_vars

\* C15: the rejection of a write leaves the last saved snapshot and all that
\* the operator sees as they were and schedules nothing, so the write is not
\* sent again; after it, a confirm or a reset schedules a write carrying the
\* diff log after the change unless the serialization of that log is the last
\* saved snapshot, in which case no write is scheduled.
C15_NoRetry ==
    [][/\ \A i \in DOMAIN autoSaves :
             Rejects(i)
             => /\ lastSavedRef' = lastSavedRef
                /\ autoSaves' = RemoveAt(autoSaves, i)
                /\ UNCHANGED <<activeKey, rows, cols, index, diffs, active, notFound, store>>
       /\ (rejected /\ activeKey # <<>> /\ (IsConfirm \/ Reset))
             => IF StringifyDiffs(diffs') # lastSavedRef
                THEN CarriesLog(autoSaves', activeKey', diffs')
                ELSE Timers(autoSaves') = {}]_vars

\* C15 happens: after a rejected write an item was scanned and confirmed, and
\* a write carrying the log with its entry is scheduled.
C15_Witness ==
    /\ rejected
    /\ lastOp.op = "confirm"
    /\ diffs # <<>>
    /\ lastSavedRef # StringifyDiffs(diffs)
    /\ CarriesLog(autoSaves, activeKey, diffs)

\* C16: the result of a write whose effect was torn down while the write was
\* in flight is not applied: the last saved snapshot stays as it was.
C16_TeardownGuard ==
    [][\A i \in DOMAIN autoSaves :
          (PutSettle(i) /\ autoSaves[i].cancelled) => lastSavedRef' = lastSavedRef]_vars

\* The non-empty normalized variants of a barcode
VariantsOf(v) == { normVariants(v)[j] : j \in DOMAIN normVariants(v) } \ {<<>>}

\* The positions of the rows whose barcode cell has the variant k
RowsWith(rs, c, k) == { i \in DOMAIN rs : k \in VariantsOf(Cell(rs[i], c.barcode)) }

\* The last row of the file whose barcode cell has the variant k
LastRowWith(rs, c, k) ==
    rs[CHOOSE i \in RowsWith(rs, c, k) : \A j \in RowsWith(rs, c, k) : j <= i]

\* The positions of the variants of a scan that the index holds
Present(scanned) ==
    { j \in DOMAIN normVariants(scanned) : normVariants(scanned)[j] \in DOMAIN index }

\* The row a scan must resolve to: that of its first variant present
RowOfScan(scanned) ==
    index[normVariants(scanned)[CHOOSE j \in Present(scanned) :
                                    \A h \in Present(scanned) : j <= h]]

Code00123 == <<"0","0","1","2","3">>
Cell123 == <<"1","2","3">>

\* C17: with the columns detected, the index holds exactly the non-empty
\* normalized variants of the barcode cells of the rows, each mapped to the
\* last row of the file that has it; a scan tries the normalized form and then
\* the form without leading zeros, shows the row of the first one the index
\* holds and is a miss when it holds neither; scanning "00123" in a file whose
\* only spelling of that code is "123" shows the row whose barcode cell is "123".
C17_ScanResolution ==
    [][/\ ~cols.isNull =>
            /\ DOMAIN index = UNION { VariantsOf(Cell(rows[i], cols.barcode)) : i \in DOMAIN rows }
            /\ \A k \in DOMAIN index : index[k] = LastRowWith(rows, cols, k)
       /\ \A scanned \in LoadedCodes :
            onBarcodeScan(scanned) =>
                /\ normVariants(scanned)[1] = normCode(scanned)
                /\ Len(normVariants(scanned)) = 2 =>
                        normVariants(scanned)[2] = StripLeadingZeros(normCode(scanned))
                /\ IF Present(scanned) = {}
                   THEN active'.isNull /\ notFound' = normCode(scanned)
                   ELSE /\ ~active'.isNull
                        /\ active'.barcode = Trim(Cell(RowOfScan(scanned), cols.barcode))
                        /\ active'.name = Trim(Cell(RowOfScan(scanned), cols.name))
                /\ ( /\ scanned = Code00123
                     /\ RowsWith(rows, cols, Cell123) # {}
                     /\ \A i \in RowsWith(rows, cols, Cell123) :
                            Cell(rows[i], cols.barcode) = Cell123 )
                   => active'.barcode = Cell123]_vars

\* The file holds "123" and then "0123"; the scan of "123" or of "00123" has
\* opened the dialog on the second row
C17_Witness ==
    /\ Len(rows) = 2
    /\ ~cols.isNull
    /\ Cell(rows[1], cols.barcode) = Cell123
    /\ Cell(rows[2], cols.barcode) = <<"0","1","2","3">>
    /\ lastOp.op = "scan"
    /\ ~active.isNull
    /\ active.barcode = <<"0","1","2","3">>
    /\ active.name = <<"R","2">>

\* The positions of the headers whose normalized form is that of an alias
Matches(h, aliases) ==
    { j \in DOMAIN h : \E a \in DOMAIN aliases : normHeader(h[j]) = normHeader(aliases[a]) }

\* The first header that matches an alias, in header order; none as <<>>
FirstMatch(h, aliases) ==
    IF Matches(h, aliases) = {} THEN <<>>
    ELSE h[CHOOSE j \in Matches(h, aliases) : \A k \in Matches(h, aliases) : j <= k]

\* C18: when the download of a file with rows settles, the columns are null
\* exactly when barcode, name or on hand has no header that matches one of its
\* aliases after normalization; otherwise each field is the first header, in
\* header order, that matches any of its aliases, reserved being left unmapped
\* when none does; the headers Barcode, Name, On Hand, Reserved map to
\* themselves.
C18_MapColumns ==
    [][\A i \in DOMAIN loads :
        (loadCSVFromCloud(i, TRUE) /\ rows' # <<>>) =>
            LET h == CsvOf(loads[i].key).headers
            IN  /\ cols'.isNull <=> \/ Matches(h, BarcodeAliases) = {}
                                    \/ Matches(h, NameAliases) = {}
                                    \/ Matches(h, OnHandAliases) = {}
                /\ ~cols'.isNull =>
                        /\ cols'.barcode = FirstMatch(h, BarcodeAliases)
                        /\ cols'.name = FirstMatch(h, NameAliases)
                        /\ cols'.onHand = FirstMatch(h, OnHandAliases)
                        /\ cols'.reserved = FirstMatch(h, ReservedAliases)
                /\ h = Headers =>
                        /\ ~cols'.isNull
                        /\ <<cols'.barcode, cols'.name, cols'.onHand, cols'.reserved>> = Headers]_vars

\* The file with the headers Code, Bar Code, Title, On-Hand (New) is loaded:
\* the barcode is the column Code, the first of the two that match, and no
\* column is reserved
C18_Witness ==
    /\ rows # <<>>
    /\ ObjectKeys(rows[1]) = HeaderLines[3]
    /\ ~cols.isNull
    /\ cols.barcode = <<"C","o","d","e">>
    /\ cols.name = <<"T","i","t","l","e">>
    /\ cols.onHand = HeaderLines[3][4]
    /\ cols.reserved = <<>>

\* The quantity the operator means by the text of the input
Entered(text) ==
    CASE text = <<"8">> -> 8
      [] text = <<"-","2">> -> 0 - 2
      [] text = <<>> -> 0

\* C19: the entry that confirmQty puts at the head of the diff log is that of
\* the Active item, its prevOnHand is the on-hand quantity of the item, its
\* actual is the quantity confirmed or entered (a negative one as entered) and
\* its delta is actual - prevOnHand; 8 against 10 gives -2.
C19_DeltaIsActualMinusPrev ==
    [][/\ (ConfirmOnHand \/ SaveTyped) =>
            /\ diffs' # <<>>
            /\ diffs'[1].barcode = active.barcode
            /\ diffs'[1].prevOnHand = active.onHand
            /\ diffs'[1].delta = diffs'[1].actual - diffs'[1].prevOnHand
            /\ (diffs'[1].actual = 8 /\ diffs'[1].prevOnHand = 10) => diffs'[1].delta = 0 - 2
       /\ ConfirmOnHand => diffs'[1].actual = active.onHand /\ diffs'[1].delta = 0
       /\ \A text \in LoadedQty :
            (\E t \in Timestamps : confirmQty(Str(text), t)) =>
                /\ diffs'[1].actual = Entered(text)
                /\ diffs'[1].delta = Entered(text) - active.onHand]_vars

\* -2 has been entered for an item with 10 on hand
C19_Witness ==
    /\ lastOp.op = "confirm"
    /\ diffs # <<>>
    /\ diffs[1].ts = ISOString(1)
    /\ diffs[1].prevOnHand = 10
    /\ diffs[1].actual = 0 - 2
    /\ diffs[1].delta = 0 - 12

\* 8 has been entered for an item with 10 on hand
C19_WitnessShortage ==
    /\ lastOp.op = "confirm"
    /\ diffs # <<>>
    /\ diffs[1].ts = ISOString(1)
    /\ diffs[1].prevOnHand = 10
    /\ diffs[1].actual = 8
    /\ diffs[1].delta = 0 - 2

\* The positions of the entries of a log whose delta is not zero
Changed(d) == { i \in DOMAIN d : d[i].delta # 0 }

\* The position in the log of the n-th entry whose delta is not zero
NthChanged(d, n) ==
    CHOOSE i \in Changed(d) : Cardinality({ h \in Changed(d) : h <= i }) = n

\* The entry an exported row was made of
EntryOf(row) ==
    [barcode |-> row[1].v.s, name |-> row[2].v.s, prevOnHand |-> row[3].v.n,
     reserved |-> row[4].v.n, actual |-> row[5].v.n, delta |-> row[6].v.n,
     ts |-> row[7].v.s]

\* C20: the Differences export holds one row for each entry of the diff log
\* whose delta is not zero and no other, the All-Scans export one row for each
\* entry, both in the order of the diff log, each row carrying the fields of
\* its entry; neither export changes the diff log.
C20_Exports ==
    [][/\ ExportDifferences =>
            /\ diffs' = diffs
            /\ Len(exported'.data) = Cardinality(Changed(diffs))
            /\ \A n \in DOMAIN exported'.data :
                   EntryOf(exported'.data[n]) = diffs[NthChanged(diffs, n)]
       /\ ExportAllScans =>
            /\ diffs' = diffs
            /\ Len(exported'.data) = Len(diffs)
            /\ \A n \in DOMAIN exported'.data : EntryOf(exported'.data[n]) = diffs[n]]_vars

\* The Differences export of the log of a shortage, a match and a surplus has
\* been made: the shortage and the surplus, in that order
C20_Witness ==
    /\ lastOp.op = "exportDifferences"
    /\ diffs = LoadedLog
    /\ Len(exported.data) = 2
    /\ exported.data[1][6].v.n = 0 - 2
    /\ exported.data[2][6].v.n = 3

\* The All-Scans export of the same log has been made
C20_WitnessAll ==
    /\ lastOp.op = "exportAll"
    /\ diffs = LoadedLog
    /\ Len(exported.data) = 3
    /\ exported.data[2][6].v.n = 0

\* A barcode resolves in the loaded row set when the index holds one of its
\* variants
Resolves(code, m) ==
    \E j \in DOMAIN normVariants(code) : normVariants(code)[j] \in DOMAIN m

\* C21: a step that replaces or clears the row set leaves no item Active, and
\* the entry that a confirm puts at the head of the diff log has a barcode
\* that resolves in the row set loaded when it is confirmed.
C21_ActiveBelongsToRows ==
    [][/\ rows' # rows => active'.isNull
       /\ IsConfirm => Resolves(diffs'[1].barcode, index)]_vars

\* The row set of a file
RowsOf(fileKey) == parseCSVSmart(CsvOf(fileKey)).rows

\* C22: at the step that completes the last file load in flight, the row set
\* is that of the file named by the active key, or empty; the response that
\* sets the diff log is the one requested for that file, and the last-saved
\* snapshot is the serialization of the diff log.
C22_LoadedStateOfActiveKey ==
    [][\A i \in DOMAIN loads :
        (loadScansForActive(i) /\ loads' = <<>>) =>
            /\ rows' \in {RowsOf(activeKey'), <<>>}
            /\ loads[i].key = activeKey'
            /\ lastSavedRef' = StringifyDiffs(diffs')]_vars

\* The log d is one of file k: the last one a confirm or a reset made for it,
\* the one stored under its scan key, or the empty log of a file that has no
\* blob yet
OwnLog(k, d) ==
    \/ produced[k].set /\ d = produced[k].log
    \/ scansKeyFor(k) \in DOMAIN written /\ d = written[scansKeyFor(k)]
    \/ scansKeyFor(k) \notin DOMAIN store /\ d = <<>>

\* C23: every write sent under the scan key of a file carries a log of that
\* file: one loaded from its scan log or made by a confirm or a reset for it,
\* never the diff log of the previous file or the empty log set while the
\* file loads.
C23_WritesCarryOwnLog ==
    [][\A i \in DOMAIN autoSaves :
          TimerFire(i) => OwnLog(autoSaves[i].key, autoSaves[i].diffs)]_vars

\* C24: a scan whose normalized form is the normalized barcode of some row of
\* the loaded file opens the dialog on a row whose normalized barcode is that
\* same string, whatever other rows differ from it by leading zeros only.
C24_ExactMatchNotShadowed ==
    [][\A scanned \in LoadedCodes :
          ( /\ onBarcodeScan(scanned)
            /\ \E i \in DOMAIN rows :
                   normCode(Cell(rows[i], cols.barcode)) = normCode(scanned) )
          => /\ ~active'.isNull
             /\ normCode(active'.barcode) = normCode(scanned)]_vars
====
